---- MODULE Spec2Model ----
(***************************************************************************)
(* NeuraQuiz: the AI question-generation service (quiz/services.py: its    *)
(* constructor, generate_questions, generate_questions_demo, generate_     *)
(* distractors and RateLimitError), the access-code migration              *)
(* (quiz/migrations/0002_add_quiz_access_code.py) and the superuser        *)
(* management commands, as state machines.                                 *)
(*                                                                         *)
(* Text is a sequence of tokens.  A Python str field of a question is a    *)
(* sequence of one-character strings; a model response is a sequence of    *)
(* lexical tokens of JSON ("[", "]", "{", "}", ",", literals) mixed with   *)
(* prose words, code fences and newlines.                                  *)
(***************************************************************************)
EXTENDS Integers, Sequences, FiniteSets, TLC

VARIABLES
    is_configured,      \* GeminiService.is_configured
    pc,                 \* position inside generate_questions
    num_questions,      \* argument of the running invocation
    response,           \* what generate_content returned
    embedded,           \* how the external model built the response text
    raw,                \* local raw
    json_text,          \* local json_text
    questions_data,     \* local questions_data
    result,             \* the returned list
    outcome,            \* "none" | "returned" | "raised"
    calls,              \* generate_content calls made by the running invocation
    call_failed         \* the generate_content call of this invocation raised

gqVars == <<is_configured, pc, num_questions, response, embedded, raw, json_text,
            questions_data, result, outcome, calls, call_failed>>

VARIABLES
    demo_pc,            \* position inside generate_questions_demo
    topic,              \* argument topic
    demo_n,             \* argument num_questions
    questions           \* local questions

demoVars == <<demo_pc, topic, demo_n, questions>>

VARIABLES
    profiles,           \* the UserProfile rows: role and quiz_access_code
    mig_pc,             \* position inside the RunPython step
    mig_todo            \* the instructors the for loop has still to visit

migVars == <<profiles, mig_pc, mig_todo>>

VARIABLES
    users,              \* auth User rows by username: "none", "user", "superuser"
    user_profiles,      \* number of UserProfile rows of each username
    created,            \* usernames of the superusers the commands created
    su_pc,              \* the command running and its position
    su_out,             \* what the commands wrote to stdout
    su_runs             \* commands started so far

suVars == <<users, user_profiles, created, su_pc, su_out, su_runs>>

VARIABLES
    view_pc,            \* position inside the request
    view_n,             \* num_questions of the request body
    service_items,      \* what gemini_service.generate_questions returned
    view_seen,          \* normalised texts of the questions saved so far
    quiz_questions      \* texts of the Question rows of the quiz

viewVars == <<view_pc, view_n, service_items, view_seen, quiz_questions>>

VARIABLES
    rl_pc,              \* position inside RateLimitError.__init__
    rl_arg,             \* argument retry_after: None, or the characters of str(retry_after)
    retry_after,        \* attribute self.retry_after
    rl_outcome          \* "none" | "constructed" | "raised"

rlVars == <<rl_pc, rl_arg, retry_after, rl_outcome>>

VARIABLES
    ctor_pc,            \* position inside GeminiService.__init__
    env,                \* GEMINI_AVAILABLE, settings and what the library does
    model,              \* self.model: the name of the instantiated model
    model_instantiated, \* local model_instantiated
    tried,              \* the names GenerativeModel was called with, in order
    fixed_i,            \* index of the for loop over tried_models
    listed,             \* the entries genai.list_models() returned
    entry_i,            \* index of the for loop over the entries
    picked              \* the list_models entry whose name was instantiated

ctorVars == <<ctor_pc, env, model, model_instantiated, tried, fixed_i, listed, entry_i,
              picked>>

VARIABLES
    dist_pc,            \* position inside generate_distractors
    dist_response,      \* what generate_content returned
    distractors_data,   \* local distractors_data
    filtered,           \* the returned list
    dist_outcome        \* "none" | "returned" | "raised"

distVars == <<dist_pc, dist_response, distractors_data, filtered, dist_outcome>>

\* What each machine leaves alone
notGQ == <<demoVars, migVars, suVars, viewVars, rlVars, ctorVars, distVars>>
notDemo == <<gqVars, migVars, suVars, viewVars, rlVars, ctorVars, distVars>>
notMig == <<gqVars, demoVars, suVars, viewVars, rlVars, ctorVars, distVars>>
notSu == <<gqVars, demoVars, migVars, viewVars, rlVars, ctorVars, distVars>>
notView == <<gqVars, demoVars, migVars, suVars, rlVars, ctorVars, distVars>>
notRL == <<gqVars, demoVars, migVars, suVars, viewVars, ctorVars, distVars>>
notDist == <<gqVars, demoVars, migVars, suVars, viewVars, rlVars, ctorVars>>
\* The constructor assigns is_configured and leaves the rest of the service alone
notCtor == <<pc, num_questions, response, embedded, raw, json_text, questions_data,
             result, outcome, calls, call_failed,
             demoVars, migVars, suVars, viewVars, rlVars, distVars>>

vars == <<gqVars, demoVars, migVars, suVars, viewVars, rlVars, ctorVars, distVars>>

----------------------------------------------------------------------------
(* Bounds of the model.                                                    *)

MaxQuestions == 3       \* longest JSON array the external model sends
MaxNum == 3             \* largest num_questions requested

----------------------------------------------------------------------------
(* Python str operations on sequences of characters.                       *)

\* str.lower() on one character
LowerChar(c) ==
    CASE c = "A" -> "a"
      [] c = "B" -> "b"
      [] c = "C" -> "c"
      [] c = "D" -> "d"
      [] c = "T" -> "t"
      [] c = "Demo" -> "demo"
      [] OTHER -> c

\* str.lower()
Lower(s) == [i \in 1..Len(s) |-> LowerChar(s[i])]

IsSpace(c) == c \in {" ", "\n"}

RECURSIVE LStrip(_)
LStrip(s) == IF s # <<>> /\ IsSpace(Head(s)) THEN LStrip(Tail(s)) ELSE s

RECURSIVE RStrip(_)
RStrip(s) ==
    IF s # <<>> /\ IsSpace(s[Len(s)]) THEN RStrip(SubSeq(s, 1, Len(s) - 1)) ELSE s

\* str.strip()
Strip(s) == RStrip(LStrip(s))

\* services.py:279, (text).strip().lower()
LowerOnly(s) == Lower(s)
Norm(s) == Lower(Strip(s))

\* '\n'.join(texts)
RECURSIVE JoinLines(_)
JoinLines(ts) ==
    IF ts = <<>> THEN <<>>
    ELSE IF Len(ts) = 1 THEN ts[1]
    ELSE ts[1] \o <<"\n">> \o JoinLines(Tail(ts))

----------------------------------------------------------------------------
(* Field values of a JSON object: t is the JSON type of the value, or      *)
(* "absent" when the key is missing; s is the characters of a string (the  *)
(* digits of a number).                                                    *)

Absent == [t |-> "absent", s |-> <<>>]
Null == [t |-> "null", s |-> <<>>]
Str(s) == [t |-> "str", s |-> s]
Num(s) == [t |-> "num", s |-> s]

\* Python truthiness of a field value (not question[field] is its negation)
Truthy(v) ==
    CASE v.t = "str" -> v.s # <<>>
      [] v.t = "num" -> v.s # <<"0">>
      [] OTHER -> FALSE

\* The question objects the external model draws from.  A body token "qN" in
\* a response text stands for the members of object N other than choices.
Pool ==
    [q1 |-> [question_type |-> Str(<<"mcq_single">>), question_text |-> Str(<<"a">>),
             correct_answer |-> Str(<<"1">>), choices |-> TRUE],
     q2 |-> [question_type |-> Str(<<"true_false">>), question_text |-> Str(<<" ", "A", " ">>),
             correct_answer |-> Str(<<"t", "r", "u", "e">>), choices |-> FALSE],
     q3 |-> [question_type |-> Str(<<"short_answer">>), question_text |-> Str(<<"b">>),
             correct_answer |-> Str(<<"x">>), choices |-> FALSE],
     q4 |-> [question_type |-> Str(<<"essay">>), question_text |-> Str(<<"c">>),
             correct_answer |-> Str(<<"x">>), choices |-> FALSE],
     q5 |-> [question_type |-> Str(<<"mcq_multiple">>), question_text |-> Str(<<"d">>),
             correct_answer |-> Absent, choices |-> TRUE],
     q6 |-> [question_type |-> Str(<<"mcq_single">>), question_text |-> Str(<<>>),
             correct_answer |-> Str(<<"1">>), choices |-> FALSE],
     q7 |-> [question_type |-> Str(<<"short_answer">>), question_text |-> Num(<<"7">>),
             correct_answer |-> Str(<<"x">>), choices |-> FALSE]]

BodyToks == DOMAIN Pool

\* A JSON object with none of the fields
EmptyRec ==
    [question_type |-> Absent, question_text |-> Absent, correct_answer |-> Absent,
     choices |-> FALSE]

\* JSON values after parsing: k is the kind of value, items the elements of a
\* list, q the fields of an object
JList(items) == [k |-> "list", items |-> items, q |-> EmptyRec]
JObj(rec) == [k |-> "obj", items |-> <<>>, q |-> rec]
JStr == [k |-> "str", items |-> <<>>, q |-> EmptyRec]
JNum == [k |-> "num", items |-> <<>>, q |-> EmptyRec]
JNone == [k |-> "none", items |-> <<>>, q |-> EmptyRec]

\* question[field] / question.get(field) on a parsed object
Field(o, f) == o.q[f]

----------------------------------------------------------------------------
(* JSON text: serialisation by the external model, json.loads, re.search.  *)

\* The text of one question object
DumpObj(q) ==
    <<"{", q>> \o (IF Pool[q].choices THEN <<"choices:", "[", "s", ",", "s", "]">> ELSE <<>>)
    \o <<"}">>

\* The text of a JSON array of question objects
RECURSIVE DumpItems(_)
DumpItems(qs) ==
    IF qs = <<>> THEN <<>>
    ELSE IF Len(qs) = 1 THEN DumpObj(qs[1])
    ELSE DumpObj(qs[1]) \o <<",">> \o DumpItems(Tail(qs))

DumpList(qs) == <<"[">> \o DumpItems(qs) \o <<"]">>

PFail == [ok |-> FALSE, v |-> JNone, next |-> 0]
POk(v, n) == [ok |-> TRUE, v |-> v, next |-> n]

Tok(t, i) == IF i >= 1 /\ i <= Len(t) THEN t[i] ELSE "<eof>"

\* json.loads: recursive descent over the tokens.  ParseValue reads one value
\* at position i; ParseItems reads the rest of an array whose items so far
\* are acc and whose next item starts at i.
RECURSIVE ParseValue(_, _), ParseItems(_, _, _)
ParseValue(t, i) ==
    CASE Tok(t, i) = "s" -> POk(JStr, i + 1)
      [] Tok(t, i) = "7" -> POk(JNum, i + 1)
      [] Tok(t, i) = "[" ->
            IF Tok(t, i + 1) = "]" THEN POk(JList(<<>>), i + 2)
            ELSE ParseItems(t, i + 1, <<>>)
      [] Tok(t, i) = "{" ->
            IF Tok(t, i + 1) = "}" THEN POk(JObj(EmptyRec), i + 2)
            ELSE IF Tok(t, i + 1) \notin BodyToks THEN PFail
            ELSE IF Tok(t, i + 2) = "}" THEN POk(JObj(Pool[t[i + 1]]), i + 3)
            ELSE IF Tok(t, i + 2) # "choices:" THEN PFail
            ELSE LET c == ParseValue(t, i + 3) IN
                 IF c.ok /\ Tok(t, c.next) = "}" THEN POk(JObj(Pool[t[i + 1]]), c.next + 1)
                 ELSE PFail
      [] OTHER -> PFail
ParseItems(t, i, acc) ==
    LET r == ParseValue(t, i) IN
    IF ~r.ok THEN PFail
    ELSE IF Tok(t, r.next) = "]" THEN POk(JList(Append(acc, r.v)), r.next + 1)
    ELSE IF Tok(t, r.next) = "," THEN ParseItems(t, r.next + 1, Append(acc, r.v))
    ELSE PFail

\* Whitespace between JSON tokens is insignificant to json.loads
NoSpace(t) == SelectSeq(t, LAMBDA c : ~IsSpace(c))

\* json.loads(text): ok is FALSE where Python raises JSONDecodeError (also on
\* extra data after the first value)
json_loads(text) ==
    LET t == NoSpace(text)
        r == ParseValue(t, 1)
    IN  IF r.ok /\ r.next = Len(t) + 1 THEN r ELSE PFail

\* Positions of a token in a text
Positions(text, c) == {i \in 1..Len(text) : text[i] = c}
Min(S) == CHOOSE x \in S : \A y \in S : x <= y
Max(S) == CHOOSE x \in S : \A y \in S : x >= y

\* re.search(open + ".*" + close, text, DOTALL).group(1): from the leftmost
\* open to the last close after it; <<>> when there is no match
GreedySearch(text, open, close) ==
    LET os == Positions(text, open)
        cs == Positions(text, close)
    IN  IF os = {} \/ cs = {} \/ Max(cs) < Min(os) THEN <<>>
        ELSE SubSeq(text, Min(os), Max(cs))

\* services.py:231-241: the JSON array if one is found, else the JSON object,
\* else nothing
ExtractJsonText(text) ==
    IF GreedySearch(text, "[", "]") # <<>> THEN GreedySearch(text, "[", "]")
    ELSE GreedySearch(text, "{", "}")

----------------------------------------------------------------------------
(* GeminiService._validate_question and the validate / deduplicate / cap   *)
(* loop of generate_questions.                                             *)

required_fields == {"question_type", "question_text", "correct_answer"}
valid_types == {<<"mcq_single">>, <<"mcq_multiple">>, <<"true_false">>, <<"short_answer">>}

\* "field in question" raises TypeError when the list element is a number or null
ValidateRaises(q) == q.k \in {"num", "none"}

\* _validate_question on a dict; on a str or a list element "field not in
\* question" is true and the record is rejected
ValidateNoTypeCheck(q) ==
    /\ q.k = "obj"
    /\ \A f \in required_fields : Field(q, f).t # "absent" /\ Truthy(Field(q, f))
_validate_question(q) ==
    /\ q.k = "obj"
    /\ \A f \in required_fields : Field(q, f).t # "absent" /\ Truthy(Field(q, f))
    /\ Field(q, "question_type").t = "str"
    /\ Field(q, "question_type").s \in valid_types

\* (q.get('question_text') or '') of a validated record
TextOf(q) == Field(q, "question_text").s

LoopExc == [exc |-> TRUE, out |-> <<>>]
LoopOut(v) == [exc |-> FALSE, out |-> v]

\* services.py:275-285 from item i on, with validated_questions = validated and
\* seen_texts = seen.  exc: an exception left the loop.
\* services.py:280, text_norm in seen_texts
NeverSeen(text_norm, seen) == FALSE
AlreadySeen(text_norm, seen) == text_norm \in seen

RECURSIVE QuestionLoop(_, _, _, _, _)
QuestionLoop(items, i, validated, seen, n) ==
    IF i > Len(items) THEN LoopOut(validated)
    ELSE IF ValidateRaises(items[i]) THEN LoopExc
    ELSE IF ~_validate_question(items[i])
         THEN QuestionLoop(items, i + 1, validated, seen, n)
    \* .strip() on a truthy value that is no str raises AttributeError
    ELSE IF Field(items[i], "question_text").t # "str" THEN LoopExc
    ELSE IF AlreadySeen(Norm(TextOf(items[i])), seen)
         THEN QuestionLoop(items, i + 1, validated, seen, n)
    ELSE IF Len(Append(validated, items[i])) >= n
         THEN LoopOut(Append(validated, items[i]))
    ELSE QuestionLoop(items, i + 1, Append(validated, items[i]),
                      seen \cup {Norm(TextOf(items[i]))}, n)

----------------------------------------------------------------------------
(* What the external model may answer.                                     *)

\* Free text the external model puts before and after the JSON array
Prefixes == {<<>>, <<"w", "fence">>, <<"w", "[", "w", "]", "w">>}
Suffixes == {<<>>, <<"fence", "w">>}

\* The arrays of question objects the external model sends
Lists == UNION {[1..k -> BodyToks] : k \in 0..MaxQuestions}

NoEmbedded == [kind |-> "other", qs |-> <<>>, pre |-> <<>>, suf |-> <<>>]

\* text_raises: reading response.text raises (the SDK's accessor raises
\* ValueError when the response holds no valid part; hasattr lets it through).
\* cands_raise: walking the candidates raises (an attribute that raises, parts
\* that cannot be iterated)
Resp(text, cands, repr) ==
    [text |-> text, cands |-> cands, repr |-> repr, text_raises |-> FALSE,
     cands_raise |-> FALSE]
RespTextRaises(cands) ==
    [text |-> <<>>, cands |-> cands, repr |-> <<"w">>, text_raises |-> TRUE,
     cands_raise |-> FALSE]
RespCandsRaise(cands, repr) ==
    [text |-> <<>>, cands |-> cands, repr |-> repr, text_raises |-> FALSE,
     cands_raise |-> TRUE]
Cand(text, parts) == [text |-> text, parts |-> parts]

\* response.text holds a JSON array of question objects inside free text
ArrayResponses ==
    {[r |-> Resp(pre \o DumpList(qs) \o suf, <<>>, <<"w">>),
      e |-> [kind |-> "list", qs |-> qs, pre |-> pre, suf |-> suf]] :
        <<qs, pre, suf>> \in Lists \X Prefixes \X Suffixes}

\* response.text holds something else: a bare object, prose, a bare string,
\* brackets around prose, an array of numbers, an empty object
OtherTexts ==
    {DumpObj("q1"), <<"w">> \o DumpObj("q3") \o <<"w">>, <<"w">>, <<"s">>,
     <<"[", "w", "]">>, <<"[", "7", "]">>, <<"{", "}">>, <<"]", "w", "[">>}

\* no response.text: the text is in the candidates' content or its parts
CandTexts == {DumpList(<<"q1">>), DumpList(<<"q3", "q2">>), <<"w">>}
CandSeqs ==
    {<<Cand(t, <<>>)>> : t \in CandTexts}
    \cup {<<Cand(<<>>, <<t, u>>)>> : <<t, u>> \in CandTexts \X CandTexts}
    \cup {<<Cand(t, <<>>), Cand(<<>>, <<u>>)>> : <<t, u>> \in CandTexts \X CandTexts}
    \cup {<<Cand(<<>>, <<>>)>>,
          <<Cand(DumpList(<<"q1">>), <<DumpList(<<"q3">>)>>)>>,
          <<Cand(<<>>, <<<<"[">>, <<>>, DumpObj("q3") \o <<"]">>>>)>>}

\* response.text and candidates both hold text
TextAndCands ==
    {Resp(t, <<Cand(DumpList(<<"q3">>), <<>>)>>, <<"w">>) :
        t \in {DumpList(<<"q1">>), <<" ">>, <<"w">>}}

\* the walk over the candidates raises after a text was collected
RaisingCands ==
    {RespCandsRaise(<<Cand(DumpList(<<"q1">>), <<>>)>>, t) :
        t \in {<<"w">>, DumpList(<<"q3">>)}}

\* no text anywhere: str(response) is what is left
Reprs == {<<>>, <<"\n">>, <<"w">>, <<" ">> \o DumpList(<<"q1", "q3">>) \o <<"\n">>}

Responses ==
    ArrayResponses
    \cup {[r |-> Resp(t, <<>>, <<"w">>), e |-> NoEmbedded] : t \in OtherTexts}
    \cup {[r |-> Resp(<<>>, cs, <<"w">>), e |-> NoEmbedded] : cs \in CandSeqs}
    \cup {[r |-> Resp(<<>>, <<>>, t), e |-> NoEmbedded] : t \in Reprs}
    \cup {[r |-> RespTextRaises(<<Cand(DumpList(<<"q1">>), <<>>)>>), e |-> NoEmbedded]}
    \cup {[r |-> x, e |-> NoEmbedded] : x \in TextAndCands \cup RaisingCands}

NoResponse == Resp(<<>>, <<>>, <<>>)

----------------------------------------------------------------------------
(* GeminiService.generate_questions                                        *)

\* services.py:186-198: the texts of one candidate
CandTextsOf(c) ==
    IF c.text # <<>> THEN <<c.text>> ELSE SelectSeq(c.parts, LAMBDA p : p # <<>>)

RECURSIVE AllCandTexts(_)
AllCandTexts(cs) ==
    IF cs = <<>> THEN <<>> ELSE CandTextsOf(Head(cs)) \o AllCandTexts(Tail(cs))

ExtractRawCandidatesFirst(resp) ==
    LET fromCands == IF resp.cands_raise THEN <<>> ELSE JoinLines(AllCandTexts(resp.cands))
        fromText == IF fromCands # <<>> THEN fromCands ELSE resp.text
        last == IF fromText # <<>> THEN fromText ELSE resp.repr
    IN  Strip(last)

\* services.py:178-211; an exception of the walk over the candidates leaves
\* raw None (lines 201-202)
ExtractRaw(resp) ==
    LET fromText == resp.text
        fromCands == IF fromText # <<>> THEN fromText
                     ELSE IF resp.cands_raise THEN <<>>
                     ELSE JoinLines(AllCandTexts(resp.cands))
        last == IF fromCands # <<>> THEN fromCands ELSE resp.repr
    IN  Strip(last)

\* A caller invokes generate_questions(topic, n)
Invoke(n) ==
    /\ pc = "idle"
    /\ pc' = "entry"
    /\ num_questions' = n
    /\ response' = NoResponse
    /\ embedded' = NoEmbedded
    /\ raw' = <<>>
    /\ json_text' = <<>>
    /\ questions_data' = JNone
    /\ result' = <<>>
    /\ outcome' = "none"
    /\ calls' = 0
    /\ call_failed' = FALSE
    /\ UNCHANGED is_configured
    /\ UNCHANGED notGQ

\* return value (services.py:139, 227, 256, 269, 288, 291, 294)
Return(v) ==
    /\ pc' = "done"
    /\ result' = v
    /\ outcome' = "returned"

\* services.py:138-139
NotConfigured ==
    /\ pc = "entry"
    /\ ~is_configured
    /\ Return(<<>>)
    /\ UNCHANGED <<is_configured, num_questions, response, embedded, raw, json_text,
                   questions_data, calls, call_failed>>
    /\ UNCHANGED notGQ

\* services.py:169, generate_content returns r
CallReturns ==
    /\ pc = "entry"
    /\ is_configured
    /\ calls' = calls + 1
    /\ \E r \in Responses :
          /\ response' = r.r
          /\ embedded' = r.e
    /\ pc' = "extract"
    /\ UNCHANGED <<is_configured, num_questions, raw, json_text, questions_data, result,
                   outcome, call_failed>>
    /\ UNCHANGED notGQ

\* services.py:169, generate_content raises (a rate-limit error or any other)
CallRaises ==
    /\ pc = "entry"
    /\ is_configured
    /\ calls' = calls + 1
    /\ call_failed' = TRUE
    /\ pc' = "except"
    /\ UNCHANGED <<is_configured, num_questions, response, embedded, raw, json_text,
                   questions_data, result, outcome>>
    /\ UNCHANGED notGQ

\* services.py:292-294
HandlerRetries ==
    /\ pc' = "entry"
    /\ UNCHANGED <<result, outcome>>
HandlerRaises ==
    /\ pc' = "done"
    /\ outcome' = "raised"
    /\ UNCHANGED result
Handler == Return(<<>>)

ExceptHandler ==
    /\ pc = "except"
    /\ Handler
    /\ UNCHANGED <<is_configured, num_questions, response, embedded, raw, json_text,
                   questions_data, calls, call_failed>>
    /\ UNCHANGED notGQ

\* services.py:178-227
ExtractText ==
    /\ pc = "extract"
    /\ IF response.text_raises
       THEN pc' = "except" /\ UNCHANGED <<raw, result, outcome>>
       ELSE /\ raw' = ExtractRaw(response)
            /\ IF raw' = <<>>
               THEN Return(<<>>)
               ELSE pc' = "parse" /\ UNCHANGED <<result, outcome>>
    /\ UNCHANGED <<is_configured, num_questions, response, embedded, json_text,
                   questions_data, calls, call_failed>>
    /\ UNCHANGED notGQ

\* services.py:229-269
ParseJson ==
    /\ pc = "parse"
    /\ json_text' = ExtractJsonText(raw)
    /\ LET p == IF json_text' = <<>> THEN json_loads(raw) ELSE json_loads(json_text')
       IN  IF p.ok
           THEN /\ questions_data' = p.v
                /\ pc' = "validate"
                /\ UNCHANGED <<result, outcome>>
           ELSE /\ questions_data' = JNone
                /\ Return(<<>>)
    /\ UNCHANGED <<is_configured, num_questions, response, embedded, raw, calls,
                   call_failed>>
    /\ UNCHANGED notGQ

\* services.py:271-291
NotAList == Return(<<>>)

Validate ==
    /\ pc = "validate"
    /\ IF questions_data.k = "list"
       THEN LET r == QuestionLoop(questions_data.items, 1, <<>>, {}, num_questions)
            IN  IF r.exc
                THEN pc' = "except" /\ UNCHANGED <<result, outcome>>
                ELSE Return(r.out)
       ELSE NotAList
    /\ UNCHANGED <<is_configured, num_questions, response, embedded, raw, json_text,
                   questions_data, calls, call_failed>>
    /\ UNCHANGED notGQ

\* The caller takes the result; the service is ready for the next invocation
Finish ==
    /\ pc = "done"
    /\ pc' = "idle"
    /\ UNCHANGED <<is_configured, num_questions, response, embedded, raw, json_text,
                   questions_data, result, outcome, calls, call_failed>>
    /\ UNCHANGED notGQ

GQNext ==
    \/ \E n \in 0..MaxNum : Invoke(n)
    \/ NotConfigured
    \/ CallReturns
    \/ CallRaises
    \/ ExceptHandler
    \/ ExtractText
    \/ ParseJson
    \/ Validate
    \/ Finish

----------------------------------------------------------------------------
(* GeminiService.generate_questions_demo                                   *)

MaxTopicLen == 2        \* longest topic, in characters
MaxDemoNum == 5         \* largest num_questions asked of the demo generator

TopicChars == {"T", "t", " "}
Topics == UNION {[1..k -> TopicChars] : k \in 0..MaxTopicLen}

\* services.py:300
QType(i) == <<"mcq_single", "mcq_multiple", "true_false", "short_answer">>[(i % 4) + 1]

\* The question built in iteration i (services.py:300-326); words of the
\* f-strings are single symbols, all lower-case but "Demo"
DemoQuestionNoIndex(tp, i) ==
    [question_type |-> Str(<<QType(i)>>),
     question_text |-> Str(tp \o <<" ", "demo", " ", "question">>),
     correct_answer |-> Str(<<"1">>),
     choices |-> TRUE]
DemoQuestion(tp, i) ==
    CASE QType(i) = "mcq_single" ->
            [question_type |-> Str(<<"mcq_single">>),
             question_text |-> Str(tp \o <<" ", "demo", " ", "question", " ", ToString(i + 1)>>),
             correct_answer |-> Str(<<"1">>),
             choices |-> TRUE]
      [] QType(i) = "mcq_multiple" ->
            [question_type |-> Str(<<"mcq_multiple">>),
             question_text |-> Str(tp \o <<" ", "demo", " ", "question", " ", ToString(i + 1)>>),
             correct_answer |-> Str(<<"1", ",", "2">>),
             choices |-> TRUE]
      [] QType(i) = "true_false" ->
            [question_type |-> Str(<<"true_false">>),
             question_text |->
                Str(tp \o <<" ", "demo", " ", "true/false", " ", "question", " ",
                            ToString(i + 1)>>),
             correct_answer |-> Str(IF i % 2 = 0 THEN <<"true">> ELSE <<"false">>),
             choices |-> TRUE]
      [] OTHER ->
            [question_type |-> Str(<<"short_answer">>),
             question_text |->
                Str(tp \o <<" ", "demo", " ", "short", " ", "answer", " ", "question", " ",
                            ToString(i + 1)>>),
             correct_answer |-> Str(<<"Demo", " ", "answer", " ", ToString(i + 1)>>),
             choices |-> TRUE]

\* A caller invokes generate_questions_demo(tp, n)
DemoInvoke(tp, n) ==
    /\ demo_pc = "idle"
    /\ demo_pc' = "loop"
    /\ topic' = tp
    /\ demo_n' = n
    /\ questions' = <<>>
    /\ UNCHANGED notDemo

\* services.py:299-326, one iteration of the for loop (i = len(questions))
DemoStep ==
    /\ demo_pc = "loop"
    /\ Len(questions) < demo_n
    /\ questions' = Append(questions, DemoQuestion(topic, Len(questions)))
    /\ UNCHANGED <<demo_pc, topic, demo_n>>
    /\ UNCHANGED notDemo

\* services.py:328
DemoReturn ==
    /\ demo_pc = "loop"
    /\ Len(questions) >= demo_n
    /\ demo_pc' = "done"
    /\ UNCHANGED <<topic, demo_n, questions>>
    /\ UNCHANGED notDemo

\* The caller takes the list
DemoFinish ==
    /\ demo_pc = "done"
    /\ demo_pc' = "idle"
    /\ UNCHANGED <<topic, demo_n, questions>>
    /\ UNCHANGED notDemo

DemoNext ==
    \/ \E tp \in Topics, n \in -1..MaxDemoNum : DemoInvoke(tp, n)
    \/ DemoStep
    \/ DemoReturn
    \/ DemoFinish

----------------------------------------------------------------------------
(* Migration 0002_add_quiz_access_code: AddField, then RunPython           *)
(* assign_access_codes_to_existing_instructors.                            *)

MaxProfiles == 2        \* UserProfile rows present when the migration runs

CodeLen == 6
DecimalDigits == {"0", "1", "2", "3", "4", "5", "6", "7", "8", "9"}

\* The digits random.choices draws in the model
DrawnDigits == {"0", "9"}
Roles == {"instructor", "student", "admin"}

\* NULL in the quiz_access_code column
NoCode == <<>>

\* ''.join(random.choices(string.digits, k=6))
RandomCodes == [1..CodeLen -> DrawnDigits]

\* UserProfile.objects.filter(quiz_access_code=code).exists()
CodeExists(code) == \E p \in 1..Len(profiles) : profiles[p].quiz_access_code = code

\* 0002_add_quiz_access_code.py:11-12, the drawn code is returned
AcceptAnyCode(code) == TRUE
CodeAccepted(code) == ~CodeExists(code)

\* 0002_add_quiz_access_code.py:18, the queryset of instructors, by primary key
Instructors ==
    LET F[p \in 0..Len(profiles)] ==
            IF p = 0 THEN <<>>
            ELSE IF profiles[p].role = "instructor" THEN Append(F[p - 1], p) ELSE F[p - 1]
    IN  F[Len(profiles)]

MigStart ==
    /\ mig_pc = "start"
    /\ mig_todo' = Instructors
    /\ mig_pc' = "loop"
    /\ UNCHANGED profiles
    /\ UNCHANGED notMig

\* 0002_add_quiz_access_code.py:20-23: the column is NULL for every row the
\* loop visits, so the test of line 21 passes; generate_unique_access_code
\* draws until a code is accepted, then save()
MigAssign ==
    /\ mig_pc = "loop"
    /\ mig_todo # <<>>
    /\ profiles[Head(mig_todo)].quiz_access_code = NoCode
    /\ \E code \in RandomCodes :
          /\ CodeAccepted(code)
          /\ profiles' = [profiles EXCEPT ![Head(mig_todo)].quiz_access_code = code]
    /\ mig_todo' = Tail(mig_todo)
    /\ UNCHANGED mig_pc
    /\ UNCHANGED notMig

MigDone ==
    /\ mig_pc = "loop"
    /\ mig_todo = <<>>
    /\ mig_pc' = "done"
    /\ UNCHANGED <<profiles, mig_todo>>
    /\ UNCHANGED notMig

MigNext ==
    \/ MigStart
    \/ MigAssign
    \/ MigDone

----------------------------------------------------------------------------
(* Management commands createsu and create_superuser.                      *)

MaxRuns == 4            \* command runs in one behaviour

Usernames == {"Shadow", "username"}

\* User.objects.filter(username=u).exists()
UserExists(u) == users[u] # "none"

\* python manage.py createsu / create_superuser
RunCommand(cmd) ==
    /\ su_pc = "idle"
    /\ su_runs < MaxRuns
    /\ su_runs' = su_runs + 1
    /\ su_pc' = cmd
    /\ UNCHANGED <<users, user_profiles, created, su_out>>
    /\ UNCHANGED notSu

\* createsu.py:14-16
CreatesuCreates ==
    /\ su_pc = "createsu"
    /\ ~UserExists("Shadow")
    /\ users' = [users EXCEPT !["Shadow"] = "superuser"]
    /\ created' = created \cup {"Shadow"}
    /\ su_out' = Append(su_out, "Superuser 'Shadow' created successfully!")
    /\ su_pc' = "idle"
    /\ UNCHANGED <<user_profiles, su_runs>>
    /\ UNCHANGED notSu

\* createsu.py:17-18
CreatesuExists ==
    /\ su_pc = "createsu"
    /\ UserExists("Shadow")
    /\ su_out' = Append(su_out, "Superuser 'Shadow' already exists.")
    /\ su_pc' = "idle"
    /\ UNCHANGED <<users, user_profiles, created, su_runs>>
    /\ UNCHANGED notSu

\* create_superuser.py:19-23
CreateSuperuserExists ==
    /\ su_pc = "create_superuser"
    /\ UserExists("username")
    /\ su_out' = Append(su_out, "User username already exists. Skipping creation.")
    /\ su_pc' = "idle"
    /\ UNCHANGED <<users, user_profiles, created, su_runs>>
    /\ UNCHANGED notSu

\* create_superuser.py:26-30
CreateSuperuserUser ==
    /\ su_pc = "create_superuser"
    /\ ~UserExists("username")
    /\ users' = [users EXCEPT !["username"] = "superuser"]
    /\ created' = created \cup {"username"}
    /\ su_pc' = "create_superuser_profile"
    /\ UNCHANGED <<user_profiles, su_out, su_runs>>
    /\ UNCHANGED notSu

\* create_superuser.py:33-40
CreateSuperuserProfile ==
    /\ su_pc = "create_superuser_profile"
    /\ user_profiles' = [user_profiles EXCEPT !["username"] = @ + 1]
    /\ su_out' = Append(su_out, "Successfully created superuser username")
    /\ su_pc' = "idle"
    /\ UNCHANGED <<users, created, su_runs>>
    /\ UNCHANGED notSu

SuNext ==
    \/ \E cmd \in {"createsu", "create_superuser"} : RunCommand(cmd)
    \/ CreatesuCreates
    \/ CreatesuExists
    \/ CreateSuperuserExists
    \/ CreateSuperuserUser
    \/ CreateSuperuserProfile

----------------------------------------------------------------------------
(* The generate-ai-questions endpoint (quiz/urls.py:24, views.generate_ai_ *)
(* questions), as its test describes it: the view asks the service for     *)
(* num_questions questions and saves the answers to the quiz, dropping     *)
(* repeated texts and stopping at the requested count.                     *)

MaxReturned == 4        \* longest list the service hands to the view
MaxViewNum == 3         \* largest num_questions in a request

\* Texts of the questions the service returns
ItemTexts == {<<"a">>, <<" ", "A">>, <<"b">>, <<"c">>}
ItemLists == UNION {[1..k -> ItemTexts] : k \in 0..MaxReturned}

\* POST /generate-ai-questions/<quiz_id>/ on a quiz without questions; the
\* service returns items
ViewRequest ==
    /\ view_pc = "idle"
    /\ quiz_questions = <<>>
    /\ \E n \in 1..MaxViewNum : view_n' = n
    /\ \E items \in ItemLists : service_items' = items
    /\ view_seen' = {}
    /\ view_pc' = "saving"
    /\ UNCHANGED quiz_questions
    /\ UNCHANGED notView

\* the view stops saving once the requested count is reached
ViewNeverFull == FALSE
ViewFull == Len(quiz_questions) >= view_n

\* one returned item: saved unless its normalised text was saved before
ViewItem ==
    /\ view_pc = "saving"
    /\ service_items # <<>>
    /\ ~ViewFull
    /\ service_items' = Tail(service_items)
    /\ IF Norm(Head(service_items)) \in view_seen
       THEN UNCHANGED <<view_seen, quiz_questions>>
       ELSE /\ view_seen' = view_seen \cup {Norm(Head(service_items))}
            /\ quiz_questions' = Append(quiz_questions, Head(service_items))
    /\ UNCHANGED <<view_pc, view_n>>
    /\ UNCHANGED notView

\* the response is sent (status 200)
ViewRespond ==
    /\ view_pc = "saving"
    /\ service_items = <<>> \/ ViewFull
    /\ view_pc' = "done"
    /\ UNCHANGED <<view_n, service_items, view_seen, quiz_questions>>
    /\ UNCHANGED notView

ViewNext ==
    \/ ViewRequest
    \/ ViewItem
    \/ ViewRespond

----------------------------------------------------------------------------
(* RateLimitError.__init__: self.retry_after = int(float(str(retry_after)   *)
(* .strip())), None when the conversion fails or gives no positive number. *)
(* The argument is None or the characters of str(retry_after); the words   *)
(* "inf" and "nan" are one character each.                                 *)

MaxArgLen == 3          \* longest str(retry_after)

ArgChars == {" ", "-", "+", "0", "1", "5", ".", "a", "inf", "nan"}
Digits == {"0", "1", "5"}

NoArg == [none |-> TRUE, s |-> <<>>]
Args == {NoArg} \cup
        {[none |-> FALSE, s |-> s] : s \in UNION {[1..k -> ArgChars] : k \in 0..MaxArgLen}}

\* self.retry_after: None or an int
NoSeconds == [none |-> TRUE, v |-> 0]
Seconds(v) == [none |-> FALSE, v |-> v]

DigitValue(c) == IF c = "0" THEN 0 ELSE IF c = "1" THEN 1 ELSE 5

\* The number a sequence of decimal digits writes; 0 for the empty sequence
RECURSIVE DigitsValue(_)
DigitsValue(ds) ==
    IF ds = <<>> THEN 0
    ELSE 10 * DigitsValue(SubSeq(ds, 1, Len(ds) - 1)) + DigitValue(ds[Len(ds)])

\* float(s): ValueError (ok FALSE) unless s is an optional sign followed by
\* inf, nan, or digits with at most one point and at least one digit.  Of a
\* finite value only the sign and the integer part are kept: int() truncates
\* towards zero and drops the rest.
ParseFloat(s) ==
    LET signed == s # <<>> /\ Head(s) \in {"+", "-"}
        neg == s # <<>> /\ Head(s) = "-"
        body == IF signed THEN Tail(s) ELSE s
        points == {i \in 1..Len(body) : body[i] = "."}
        whole == IF points = {} THEN body
                 ELSE SubSeq(body, 1, (CHOOSE i \in points : TRUE) - 1)
    IN  IF body = <<"inf">> THEN [ok |-> TRUE, kind |-> "inf", neg |-> neg, int |-> 0]
        ELSE IF body = <<"nan">> THEN [ok |-> TRUE, kind |-> "nan", neg |-> neg, int |-> 0]
        ELSE IF /\ Cardinality(points) <= 1
                /\ \A i \in 1..Len(body) : body[i] \in Digits \cup {"."}
                /\ \E i \in 1..Len(body) : body[i] \in Digits
             THEN [ok |-> TRUE, kind |-> "finite", neg |-> neg, int |-> DigitsValue(whole)]
             ELSE [ok |-> FALSE, kind |-> "error", neg |-> neg, int |-> 0]

\* int(f) of a finite float
IntOf(f) == IF f.neg THEN 0 - f.int ELSE f.int

\* services.py:20-21 and 29-30: store the message, take the else branch when
\* retry_after is None
RLConstruct ==
    /\ rl_pc = "idle"
    /\ \E a \in Args :
          /\ rl_arg' = a
          /\ IF a.none
             THEN rl_pc' = "done" /\ rl_outcome' = "constructed"
             ELSE rl_pc' = "convert" /\ rl_outcome' = "none"
    /\ retry_after' = NoSeconds
    /\ UNCHANGED notRL

\* A ValueError of the conversion is caught (services.py:27-28)
RLCaught ==
    /\ rl_pc' = "done"
    /\ retry_after' = NoSeconds
    /\ rl_outcome' = "constructed"

\* int() of an infinite float raises OverflowError, which the except clause
\* (ValueError, TypeError) does not name: it leaves the constructor
RLOverflow ==
    /\ rl_pc' = "done"
    /\ retry_after' = NoSeconds
    /\ rl_outcome' = "raised"

\* services.py:24
RLConvert ==
    /\ rl_pc = "convert"
    /\ LET f == ParseFloat(Strip(rl_arg.s))
       IN  IF ~f.ok \/ f.kind = "nan" THEN RLCaught
           ELSE IF f.kind = "inf" THEN RLOverflow
           ELSE /\ rl_pc' = "check"
                /\ retry_after' = Seconds(IntOf(f))
                /\ rl_outcome' = "none"
    /\ UNCHANGED rl_arg
    /\ UNCHANGED notRL

\* services.py:25-26
RLCheck ==
    /\ rl_pc = "check"
    /\ retry_after' = IF retry_after.v <= 0 THEN NoSeconds ELSE retry_after
    /\ rl_pc' = "done"
    /\ rl_outcome' = "constructed"
    /\ UNCHANGED rl_arg
    /\ UNCHANGED notRL

RLNext ==
    \/ RLConstruct
    \/ RLConvert
    \/ RLCheck

----------------------------------------------------------------------------
(* GeminiService.__init__: configure the client, then instantiate the      *)
(* first model that works: the preferred one, the fixed names, the models  *)
(* list_models returns.                                                    *)

MaxListed == 2          \* longest list list_models returns

\* services.py:71
tried_models == <<"gemini-2.5-pro", "gemini-2.5-flash", "gemini-1.5-flash",
                  "gemini-2.5-pro-preview-03-25", "gemini-pro-latest">>

\* settings.GEMINI_MODEL_NAME: unset, a name of its own, one of the fixed names
PreferredNames == {"", "custom-model", "gemini-1.5-flash"}

\* The names genai.GenerativeModel may accept
ModelNames == {"custom-model", "gemini-2.5-pro", "gemini-pro-latest", "models/a", "models/b"}

NoModel == ""

\* The environment of one construction: GEMINI_AVAILABLE, settings.GEMINI_API_KEY,
\* settings.GEMINI_MODEL_NAME, whether genai.configure raises, and the names
\* GenerativeModel instantiates without raising
Envs == [available : BOOLEAN, api_key : {"", "key"}, configure_raises : BOOLEAN,
         preferred : PreferredNames, usable : SUBSET ModelNames]

NoEnv == [available |-> FALSE, api_key |-> "", configure_raises |-> FALSE,
          preferred |-> "", usable |-> {}]

\* An entry of list_models: a str, a dict or an object; name is the candidate
\* lines 87-92 take from it ("" when it has none); supported is its
\* supported_generation_methods: "none" (missing or None), "empty", "generate"
\* (holds generateContent), "other" (holds other methods only), "opaque" (a
\* value the membership test raises on)
Entry(form, name, supported) == [form |-> form, name |-> name, supported |-> supported]

NoEntry == Entry("none", "", "none")

EntryPool == {Entry("str", "models/a", "none"),
              Entry("obj", "models/b", "generate"),
              Entry("obj", "models/a", "other"),
              Entry("dict", "", "generate"),
              Entry("dict", "models/b", "empty"),
              Entry("obj", "models/a", "opaque")}

\* What genai.list_models() does: raise, return None, return a list
ListResults ==
    {[raises |-> TRUE, entries |-> <<>>]} \cup
    {[raises |-> FALSE, entries |-> es] :
        es \in UNION {[1..k -> EntryPool] : k \in 0..MaxListed}}

\* services.py:99-105: the entry is passed over when its methods are a
\* non-empty collection without generateContent; a failing test is ignored
Skipped(e) == e.supported = "other"

\* genai.GenerativeModel(name) returns
Instantiates(name) == name \in env.usable

\* A new service object is constructed (services.py:44-45)
CtorStart ==
    /\ ctor_pc = "idle"
    /\ env' \in Envs
    /\ ctor_pc' = "check"
    /\ model' = NoModel /\ model_instantiated' = FALSE /\ tried' = <<>>
    /\ fixed_i' = 0 /\ listed' = <<>> /\ entry_i' = 0 /\ picked' = NoEntry
    /\ is_configured' = FALSE
    /\ UNCHANGED notCtor

\* services.py:46-53
CtorDisabled ==
    /\ ctor_pc = "check"
    /\ ~env.available \/ env.api_key = ""
    /\ is_configured' = FALSE
    /\ ctor_pc' = "done"
    /\ UNCHANGED <<env, model, model_instantiated, tried, fixed_i, listed, entry_i, picked>>
    /\ UNCHANGED notCtor

\* services.py:57; an exception of genai.configure reaches the outer handler
\* (lines 122-124)
CtorConfigure ==
    /\ ctor_pc = "check"
    /\ env.available /\ env.api_key # ""
    /\ IF env.configure_raises
       THEN is_configured' = FALSE /\ ctor_pc' = "done"
       ELSE is_configured' = is_configured /\ ctor_pc' = "preferred"
    /\ UNCHANGED <<env, model, model_instantiated, tried, fixed_i, listed, entry_i, picked>>
    /\ UNCHANGED notCtor

\* genai.GenerativeModel(name) inside its try: the name is recorded; on
\* success self.model and model_instantiated are assigned
TryModel(name) ==
    /\ tried' = Append(tried, name)
    /\ IF Instantiates(name)
       THEN model' = name /\ model_instantiated' = TRUE
       ELSE UNCHANGED <<model, model_instantiated>>

\* services.py:59-70
CtorPreferred ==
    /\ ctor_pc = "preferred"
    /\ IF env.preferred # ""
       THEN TryModel(env.preferred)
       ELSE UNCHANGED <<model, model_instantiated, tried>>
    /\ ctor_pc' = IF env.preferred # "" /\ Instantiates(env.preferred) THEN "end" ELSE "fixed"
    /\ fixed_i' = 1
    /\ UNCHANGED <<env, listed, entry_i, picked, is_configured>>
    /\ UNCHANGED notCtor

CtorTryFixedNoBreak ==
    /\ ctor_pc = "fixed"
    /\ fixed_i <= Len(tried_models)
    /\ TryModel(tried_models[fixed_i])
    /\ fixed_i' = fixed_i + 1
    /\ ctor_pc' = IF fixed_i < Len(tried_models) THEN "fixed"
                  ELSE IF model_instantiated' THEN "end"
                  ELSE "discover"
    /\ UNCHANGED <<env, listed, entry_i, picked, is_configured>>
    /\ UNCHANGED notCtor

\* services.py:72-79, one round of the loop; break on success, and line 82
\* once the names are used up
CtorTryFixed ==
    /\ ctor_pc = "fixed"
    /\ fixed_i <= Len(tried_models)
    /\ TryModel(tried_models[fixed_i])
    /\ fixed_i' = fixed_i + 1
    /\ ctor_pc' = IF Instantiates(tried_models[fixed_i]) THEN "end"
                  ELSE IF fixed_i = Len(tried_models) THEN "discover"
                  ELSE "fixed"
    /\ UNCHANGED <<env, listed, entry_i, picked, is_configured>>
    /\ UNCHANGED notCtor

\* services.py:84: genai.list_models() or []; its exception is caught at
\* lines 114-115
CtorListModels ==
    /\ ctor_pc = "discover"
    /\ \E r \in ListResults :
          IF r.raises
          THEN listed' = <<>> /\ ctor_pc' = "end"
          ELSE listed' = r.entries /\ ctor_pc' = "entries"
    /\ entry_i' = 1
    /\ UNCHANGED <<env, model, model_instantiated, tried, fixed_i, picked, is_configured>>
    /\ UNCHANGED notCtor

\* services.py:85-113, one round of the loop over the entries
CtorEntry ==
    /\ ctor_pc = "entries"
    /\ entry_i <= Len(listed)
    /\ LET entry == listed[entry_i]
           passed == entry.name = "" \/ Skipped(entry)
       IN  /\ IF passed
              THEN UNCHANGED <<model, model_instantiated, tried>>
              ELSE TryModel(entry.name)
           /\ IF ~passed /\ Instantiates(entry.name)
              THEN picked' = entry /\ ctor_pc' = "end"
              ELSE picked' = picked /\ ctor_pc' = "entries"
    /\ entry_i' = entry_i + 1
    /\ UNCHANGED <<env, fixed_i, listed, is_configured>>
    /\ UNCHANGED notCtor

\* The loop over the entries ends without a break
CtorEntriesDone ==
    /\ ctor_pc = "entries"
    /\ entry_i > Len(listed)
    /\ ctor_pc' = "end"
    /\ UNCHANGED <<env, model, model_instantiated, tried, fixed_i, listed, entry_i, picked,
                   is_configured>>
    /\ UNCHANGED notCtor

\* services.py:117-124: RuntimeError when no model was instantiated, caught by
\* the outer handler
CtorEnd ==
    /\ ctor_pc = "end"
    /\ is_configured' = model_instantiated
    /\ ctor_pc' = "done"
    /\ UNCHANGED <<env, model, model_instantiated, tried, fixed_i, listed, entry_i, picked>>
    /\ UNCHANGED notCtor

CtorNext ==
    \/ CtorStart
    \/ CtorDisabled
    \/ CtorConfigure
    \/ CtorPreferred
    \/ CtorTryFixed
    \/ CtorListModels
    \/ CtorEntry
    \/ CtorEntriesDone
    \/ CtorEnd

----------------------------------------------------------------------------
(* GeminiService.generate_distractors                                      *)

MaxDistractors == 3     \* longest JSON array of distractors the external model sends

\* plausibility_score of a distractor object, in hundredths: "absent" when the
\* key is missing, "null" for JSON null, "str" for a JSON string
NoScore == [t |-> "absent", v |-> 0]
NullScore == [t |-> "null", v |-> 0]
StrScore == [t |-> "str", v |-> 0]
Score(v) == [t |-> "num", v |-> v]

\* The distractor objects the external model draws from.  A body token "dN"
\* in a response text stands for the members of object N.
DPool ==
    [d1 |-> [distractor_text |-> <<"a">>, plausibility_score |-> Score(90)],
     d2 |-> [distractor_text |-> <<"b">>, plausibility_score |-> Score(30)],
     d3 |-> [distractor_text |-> <<"c">>, plausibility_score |-> Score(31)],
     d4 |-> [distractor_text |-> <<"d">>, plausibility_score |-> NoScore],
     d5 |-> [distractor_text |-> <<"e">>, plausibility_score |-> NullScore],
     d6 |-> [distractor_text |-> <<"f">>, plausibility_score |-> StrScore]]

DToks == DOMAIN DPool

EmptyDRec == [distractor_text |-> <<>>, plausibility_score |-> NoScore]

\* JSON values after parsing: k is the kind of value, items the elements of a
\* list, d the members of an object
DList(items) == [k |-> "list", items |-> items, d |-> EmptyDRec]
DObj(rec) == [k |-> "obj", items |-> <<>>, d |-> rec]
DNum == [k |-> "num", items |-> <<>>, d |-> EmptyDRec]
DNone == [k |-> "none", items |-> <<>>, d |-> EmptyDRec]

\* The text of a JSON array of distractor objects
RECURSIVE DumpDItems(_)
DumpDItems(ds) ==
    IF ds = <<>> THEN <<>>
    ELSE IF Len(ds) = 1 THEN <<"{", ds[1], "}">>
    ELSE <<"{", ds[1], "}", ",">> \o DumpDItems(Tail(ds))

DumpDList(ds) == <<"[">> \o DumpDItems(ds) \o <<"]">>

DFail == [ok |-> FALSE, v |-> DNone, next |-> 0]
DOk(v, n) == [ok |-> TRUE, v |-> v, next |-> n]

\* json.loads on the tokens of a distractor text: ParseDValue reads one value
\* at position i; ParseDItems reads the rest of an array whose items so far
\* are acc and whose next item starts at i.
RECURSIVE ParseDValue(_, _), ParseDItems(_, _, _)
ParseDValue(t, i) ==
    CASE Tok(t, i) = "7" -> DOk(DNum, i + 1)
      [] Tok(t, i) = "[" ->
            IF Tok(t, i + 1) = "]" THEN DOk(DList(<<>>), i + 2)
            ELSE ParseDItems(t, i + 1, <<>>)
      [] Tok(t, i) = "{" ->
            IF Tok(t, i + 1) = "}" THEN DOk(DObj(EmptyDRec), i + 2)
            ELSE IF Tok(t, i + 1) \in DToks /\ Tok(t, i + 2) = "}"
                 THEN DOk(DObj(DPool[t[i + 1]]), i + 3)
            ELSE DFail
      [] OTHER -> DFail
ParseDItems(t, i, acc) ==
    LET r == ParseDValue(t, i) IN
    IF ~r.ok THEN DFail
    ELSE IF Tok(t, r.next) = "]" THEN DOk(DList(Append(acc, r.v)), r.next + 1)
    ELSE IF Tok(t, r.next) = "," THEN ParseDItems(t, r.next + 1, Append(acc, r.v))
    ELSE DFail

\* json.loads(response.text): ok is FALSE where Python raises
loads_distractors(text) ==
    LET t == NoSpace(text)
        r == ParseDValue(t, 1)
    IN  IF r.ok /\ r.next = Len(t) + 1 THEN r ELSE DFail

\* What the external model may answer: arrays of distractor objects, bare or
\* followed by a newline, and texts json.loads refuses or reads as something
\* else than a list of objects
DistTexts ==
    LET arrays == {DumpDList(ds) : ds \in UNION {[1..k -> DToks] : k \in 0..MaxDistractors}}
    IN  arrays
        \cup {<<"[", "{", "d1", "}", "]", "\n">>}
        \cup {<<>>,
              <<"{", "d1", "}">>,
              <<"{", "}">>,
              <<"7">>,
              <<"[", "{", "d1", "}", ",", "7", "]">>,
              <<"[", "7", ",", "{", "d1", "}", "]">>,
              <<"[", "{", "}", ",", "{", "d1", "}", "]">>,
              <<"[", "{", "d1", "}">>,
              <<"[", "{", "d1", "}", ",", "]">>,
              <<"fence", "[", "{", "d1", "}", "]", "fence">>,
              <<"w", "[", "{", "d1", "}", "]">>,
              <<"[", "{", "d1", "}", "]", "[", "{", "d3", "}", "]">>}

\* A response of generate_content: raises is the call raising, text_raises
\* the text accessor raising (a blocked or empty response)
DistResponse(raises, text_raises, text) ==
    [raises |-> raises, text_raises |-> text_raises, text |-> text]

NoDistResponse == DistResponse(FALSE, FALSE, <<>>)

DistResponses ==
    {DistResponse(TRUE, FALSE, <<>>), DistResponse(FALSE, TRUE, <<>>)}
    \cup {DistResponse(FALSE, FALSE, t) : t \in DistTexts}

\* d.get('plausibility_score', 0) > 0.3 raises TypeError when the score is
\* null or a string
ScoreRaises(d) == d.k # "obj" \/ d.d.plausibility_score.t \in {"null", "str"}

ScorePassesInclusive(d) == d.d.plausibility_score.t = "num" /\ d.d.plausibility_score.v >= 30

\* services.py:364; a missing key counts as 0
ScorePasses(d) == d.d.plausibility_score.t = "num" /\ d.d.plausibility_score.v > 30

\* services.py:362-365: the list comprehension over distractors_data; exc is
\* TRUE when an element raises (no get on a number, no order between None or
\* a str and a float)
RECURSIVE FilterDistractors(_, _, _)
FilterDistractors(items, i, acc) ==
    IF i > Len(items) THEN [exc |-> FALSE, out |-> acc]
    ELSE IF ScoreRaises(items[i]) THEN [exc |-> TRUE, out |-> <<>>]
    ELSE FilterDistractors(items, i + 1,
                           IF ScorePasses(items[i]) THEN Append(acc, items[i]) ELSE acc)

\* generate_distractors is called
DistInvoke ==
    /\ dist_pc \in {"idle", "done"}
    /\ dist_pc' = "entry"
    /\ dist_response' = NoDistResponse /\ distractors_data' = DNone
    /\ filtered' = <<>> /\ dist_outcome' = "none"
    /\ UNCHANGED notDist

\* return filtered_distractors / return []
DistReturn(v) ==
    /\ dist_pc' = "done"
    /\ filtered' = v
    /\ dist_outcome' = "returned"

\* services.py:342-343
DistNotConfigured ==
    /\ dist_pc = "entry"
    /\ ~is_configured
    /\ DistReturn(<<>>)
    /\ UNCHANGED <<dist_response, distractors_data>>
    /\ UNCHANGED notDist

\* services.py:358
DistCall ==
    /\ dist_pc = "entry"
    /\ is_configured
    /\ \E r \in DistResponses :
          /\ dist_response' = r
          /\ dist_pc' = IF r.raises THEN "except" ELSE "parse"
    /\ UNCHANGED <<distractors_data, filtered, dist_outcome>>
    /\ UNCHANGED notDist

\* services.py:359
DistParse ==
    /\ dist_pc = "parse"
    /\ LET r == loads_distractors(dist_response.text)
       IN  IF dist_response.text_raises \/ ~r.ok
           THEN dist_pc' = "except" /\ UNCHANGED distractors_data
           ELSE dist_pc' = "filter" /\ distractors_data' = r.v
    /\ UNCHANGED <<dist_response, filtered, dist_outcome>>
    /\ UNCHANGED notDist

\* services.py:362-367: a number is not iterable; iterating a dict gives its
\* keys, which have no get
DistFilter ==
    /\ dist_pc = "filter"
    /\ LET r == FilterDistractors(distractors_data.items, 1, <<>>)
           raises == \/ distractors_data.k = "num"
                     \/ distractors_data.k = "obj" /\ distractors_data.d # EmptyDRec
                     \/ distractors_data.k = "list" /\ r.exc
       IN  IF raises
           THEN dist_pc' = "except" /\ UNCHANGED <<filtered, dist_outcome>>
           ELSE DistReturn(r.out)
    /\ UNCHANGED <<dist_response, distractors_data>>
    /\ UNCHANGED notDist

\* services.py:369-371
DistHandler == DistReturn(<<>>)

DistExcept ==
    /\ dist_pc = "except"
    /\ DistHandler
    /\ UNCHANGED <<dist_response, distractors_data>>
    /\ UNCHANGED notDist

DistNext ==
    \/ DistInvoke
    \/ DistNotConfigured
    \/ DistCall
    \/ DistParse
    \/ DistFilter
    \/ DistExcept

----------------------------------------------------------------------------
(* Specifications.                                                         *)

\* The service answering generate_questions invocations
Init ==
    /\ is_configured \in BOOLEAN
    /\ pc = "idle" /\ num_questions = 0
    /\ response = NoResponse /\ embedded = NoEmbedded /\ raw = <<>> /\ json_text = <<>>
    /\ questions_data = JNone /\ result = <<>> /\ outcome = "none" /\ calls = 0
    /\ call_failed = FALSE
    /\ demo_pc = "idle" /\ topic = <<>> /\ demo_n = 0 /\ questions = <<>>
    /\ profiles = <<>> /\ mig_pc = "start" /\ mig_todo = <<>>
    /\ users = [u \in Usernames |-> "none"] /\ user_profiles = [u \in Usernames |-> 0]
    /\ created = {} /\ su_pc = "idle" /\ su_out = <<>> /\ su_runs = 0
    /\ view_pc = "idle" /\ view_n = 0 /\ service_items = <<>> /\ view_seen = {}
    /\ quiz_questions = <<>>
    /\ rl_pc = "idle" /\ rl_arg = NoArg /\ retry_after = NoSeconds /\ rl_outcome = "none"
    /\ ctor_pc = "idle" /\ env = NoEnv /\ model = NoModel /\ model_instantiated = FALSE
    /\ tried = <<>> /\ fixed_i = 0 /\ listed = <<>> /\ entry_i = 0 /\ picked = NoEntry
    /\ dist_pc = "idle" /\ dist_response = NoDistResponse /\ distractors_data = DNone
    /\ filtered = <<>> /\ dist_outcome = "none"

Spec == Init /\ [][GQNext]_vars

\* The demo generator: the same state, the service unconfigured
InitDemo == Init /\ ~is_configured

SpecDemo == InitDemo /\ [][DemoNext]_vars

\* The access-code migration: the table after AddField, the new column NULL
\* in every row
InitMig ==
    /\ is_configured = FALSE
    /\ pc = "idle" /\ num_questions = 0
    /\ response = NoResponse /\ embedded = NoEmbedded /\ raw = <<>> /\ json_text = <<>>
    /\ questions_data = JNone /\ result = <<>> /\ outcome = "none" /\ calls = 0
    /\ call_failed = FALSE
    /\ demo_pc = "idle" /\ topic = <<>> /\ demo_n = 0 /\ questions = <<>>
    /\ \E k \in 0..MaxProfiles :
          profiles \in [1..k -> [role : Roles, quiz_access_code : {NoCode}]]
    /\ mig_pc = "start" /\ mig_todo = <<>>
    /\ users = [u \in Usernames |-> "none"] /\ user_profiles = [u \in Usernames |-> 0]
    /\ created = {} /\ su_pc = "idle" /\ su_out = <<>> /\ su_runs = 0
    /\ view_pc = "idle" /\ view_n = 0 /\ service_items = <<>> /\ view_seen = {}
    /\ quiz_questions = <<>>
    /\ rl_pc = "idle" /\ rl_arg = NoArg /\ retry_after = NoSeconds /\ rl_outcome = "none"
    /\ ctor_pc = "idle" /\ env = NoEnv /\ model = NoModel /\ model_instantiated = FALSE
    /\ tried = <<>> /\ fixed_i = 0 /\ listed = <<>> /\ entry_i = 0 /\ picked = NoEntry
    /\ dist_pc = "idle" /\ dist_response = NoDistResponse /\ distractors_data = DNone
    /\ filtered = <<>> /\ dist_outcome = "none"

SpecMig == InitMig /\ [][MigNext]_vars

\* The superuser commands, run one after another, on a database that is
\* empty or holds accounts registered through the application (a User with
\* its UserProfile)
InitSu ==
    /\ is_configured = FALSE
    /\ pc = "idle" /\ num_questions = 0
    /\ response = NoResponse /\ embedded = NoEmbedded /\ raw = <<>> /\ json_text = <<>>
    /\ questions_data = JNone /\ result = <<>> /\ outcome = "none" /\ calls = 0
    /\ call_failed = FALSE
    /\ demo_pc = "idle" /\ topic = <<>> /\ demo_n = 0 /\ questions = <<>>
    /\ profiles = <<>> /\ mig_pc = "start" /\ mig_todo = <<>>
    /\ users \in [Usernames -> {"none", "user"}]
    /\ user_profiles = [u \in Usernames |-> IF users[u] = "user" THEN 1 ELSE 0]
    /\ created = {} /\ su_pc = "idle" /\ su_out = <<>> /\ su_runs = 0
    /\ view_pc = "idle" /\ view_n = 0 /\ service_items = <<>> /\ view_seen = {}
    /\ quiz_questions = <<>>
    /\ rl_pc = "idle" /\ rl_arg = NoArg /\ retry_after = NoSeconds /\ rl_outcome = "none"
    /\ ctor_pc = "idle" /\ env = NoEnv /\ model = NoModel /\ model_instantiated = FALSE
    /\ tried = <<>> /\ fixed_i = 0 /\ listed = <<>> /\ entry_i = 0 /\ picked = NoEntry
    /\ dist_pc = "idle" /\ dist_response = NoDistResponse /\ distractors_data = DNone
    /\ filtered = <<>> /\ dist_outcome = "none"

SpecSu == InitSu /\ [][SuNext]_vars

\* One request to the generate-ai-questions endpoint, the service configured
InitView == Init /\ is_configured

SpecView == InitView /\ [][ViewNext]_vars

\* Constructions of RateLimitError
InitRL == Init /\ ~is_configured

SpecRL == InitRL /\ [][RLNext]_vars

\* Constructions of the service object
InitCtor == Init /\ ~is_configured

SpecCtor == InitCtor /\ [][CtorNext]_vars

\* The service answering generate_distractors invocations
InitDist == Init /\ dist_pc = "idle"

SpecDist == InitDist /\ [][DistNext]_vars

----------------------------------------------------------------------------
(* Properties of generate_questions.                                       *)

Returned == pc = "done" /\ outcome = "returned"

\* Normalisation as the specification words it: trim, then lower-case
TrimLower(s) == Lower(RStrip(LStrip(s)))

\* A record with the three required fields non-empty and a known type tag
WellFormed(o) ==
    /\ o.k = "obj"
    /\ o.q.question_type.t = "str" /\ o.q.question_type.s # <<>>
    /\ o.q.question_text.t \notin {"absent", "null"} /\ o.q.question_text.s # <<>>
    /\ o.q.correct_answer.t \notin {"absent", "null"} /\ o.q.correct_answer.s # <<>>
    /\ o.q.question_type.s \in
          {<<"mcq_single">>, <<"mcq_multiple">>, <<"true_false">>, <<"short_answer">>}

\* Every field of the record holds a string
AllStrings(rec) ==
    \A f \in {"question_type", "question_text", "correct_answer"} : rec[f].t = "str"

\* The records of the array the external model embedded in its text
Sent == [i \in 1..Len(embedded.qs) |-> Pool[embedded.qs[i]]]

\* C1: the returned list holds at most num_questions questions, for every
\* response and every integer num_questions.
C1_CapsToRequestedCount == Returned => Len(result) <= num_questions

\* C2: no two returned questions have the same question_text after trimming
\* surrounding whitespace and lower-casing.
C2_NoDuplicateTexts ==
    Returned =>
        \A i, j \in 1..Len(result) :
            i # j => TrimLower(result[i].q.question_text.s)
                     # TrimLower(result[j].q.question_text.s)

\* C2 witness: the array held two valid records whose texts differ but are the
\* same once normalised, and two questions were returned.
C2_Witness ==
    /\ Returned
    /\ embedded.kind = "list"
    /\ \E i, j \in 1..Len(Sent) :
          /\ i < j
          /\ WellFormed(JObj(Sent[i])) /\ WellFormed(JObj(Sent[j]))
          /\ AllStrings(Sent[i]) /\ AllStrings(Sent[j])
          /\ TrimLower(Sent[i].question_text.s) = TrimLower(Sent[j].question_text.s)
          /\ Sent[i].question_text.s # Sent[j].question_text.s
    /\ Len(result) = 2

\* C3: every returned question has a non-empty question_type, question_text
\* and correct_answer and one of the four type tags.
C3_ReturnedAreValid == Returned => \A i \in 1..Len(result) : WellFormed(result[i])

\* C3 witness: the array held records with a wrong type tag and with a missing
\* field, and a question was returned.
C3_Witness ==
    /\ Returned
    /\ embedded.kind = "list"
    /\ \E i \in 1..Len(Sent) : Sent[i].question_type.s = <<"essay">>
    /\ \E i \in 1..Len(Sent) : Sent[i].correct_answer.t = "absent"
    /\ result # <<>>

\* C4: no exception leaves generate_questions, and the result is empty when
\* the service is not configured, the call raised, the text is empty, the text
\* does not parse as JSON, or the JSON is no list.
C4_DegradesToEmpty ==
    /\ outcome # "raised"
    /\ pc = "done" =>
          /\ outcome = "returned"
          /\ ~is_configured => result = <<>>
          /\ call_failed => result = <<>>
          /\ raw = <<>> => result = <<>>
          /\ (raw # <<>> /\ ~json_loads(IF json_text # <<>> THEN json_text ELSE raw).ok)
                => result = <<>>
          /\ questions_data.k # "list" => result = <<>>

\* C4 witness: the response parsed as JSON that is not a list, and the call
\* ended.
C4_Witness ==
    /\ pc = "done"
    /\ is_configured /\ ~call_failed /\ raw # <<>>
    /\ questions_data.k = "obj"

\* C5: a JSON array of question objects wrapped in free text is extracted and
\* parsed: with num_questions >= 1 and a valid question in it, the result is
\* not empty.
C5_EmbeddedArrayExtracted ==
    ( /\ Returned
      /\ embedded.kind = "list"
      /\ num_questions >= 1
      /\ \A i \in 1..Len(Sent) : AllStrings(Sent[i])
      /\ \E i \in 1..Len(Sent) : WellFormed(JObj(Sent[i])) )
    => result # <<>>

\* C10: an invocation calls generate_content at most once, never when the
\* service is not configured, and a failed call ends it with the empty list.
C10_NoRetry ==
    /\ calls <= 1
    /\ ~is_configured => calls = 0
    /\ call_failed => calls = 1 /\ pc \in {"except", "done", "idle"}
    /\ (call_failed /\ pc = "done") => result = <<>> /\ outcome = "returned"

\* C10 witness: the call raised and the invocation ended.
C10_Witness == pc = "done" /\ call_failed /\ calls = 1

\* The parsed list the loop of generate_questions ran over
ParsedList == questions_data.items

\* The reference sequence of a list: the valid records (well-formed, the
\* question_text a string), less every one whose trimmed, lower-cased
\* question_text is that of an earlier kept record
RECURSIVE Reference(_, _, _)
Reference(items, kept, texts) ==
    IF items = <<>> THEN kept
    ELSE LET o == Head(items)
             text == IF o.k = "obj" THEN TrimLower(o.q.question_text.s) ELSE <<>>
         IN  IF WellFormed(o) /\ o.q.question_text.t = "str" /\ text \notin texts
             THEN Reference(Tail(items), Append(kept, o), texts \cup {text})
             ELSE Reference(Tail(items), kept, texts)

FirstN(seq, n) == SubSeq(seq, 1, IF Len(seq) < n THEN Len(seq) ELSE n)

\* A list element the loop cannot process: a number, or a well-formed record
\* whose question_text is not a string
Unprocessable(o) ==
    \/ o.k \in {"num", "none"}
    \/ WellFormed(o) /\ o.q.question_text.t # "str"

\* Index of the first such element, Len + 1 when there is none
FirstUnprocessable(items) ==
    IF \E i \in 1..Len(items) : Unprocessable(items[i])
    THEN Min({i \in 1..Len(items) : Unprocessable(items[i])})
    ELSE Len(items) + 1

Extracted ==
    /\ pc \in {"parse", "validate", "except", "done"}
    /\ calls = 1 /\ ~call_failed /\ ~response.text_raises

\* The texts the candidates yield: of each candidate in turn its content
\* text when that is not empty, else the non-empty texts of its parts; none
\* when the walk over the candidates fails
RECURSIVE YieldedBy(_, _)
YieldedBy(cands, i) ==
    IF i > Len(cands) THEN <<>>
    ELSE LET c == cands[i]
             own == IF c.text # <<>> THEN <<c.text>>
                    ELSE [j \in 1..Cardinality({k \in 1..Len(c.parts) : c.parts[k] # <<>>}) |->
                            c.parts[CHOOSE k \in 1..Len(c.parts) :
                                /\ c.parts[k] # <<>>
                                /\ Cardinality({l \in 1..k : c.parts[l] # <<>>}) = j]]
         IN  own \o YieldedBy(cands, i + 1)

CandidatesYield == IF response.cands_raise THEN <<>> ELSE YieldedBy(response.cands, 1)

\* Texts joined by newlines
RECURSIVE Joined(_)
Joined(ts) ==
    IF Len(ts) = 0 THEN <<>>
    ELSE IF Len(ts) = 1 THEN ts[1]
    ELSE Joined(SubSeq(ts, 1, Len(ts) - 1)) \o <<"\n">> \o ts[Len(ts)]

\* C13: the extracted text is the response's own text whenever that is not
\* empty, whatever the candidates hold; otherwise the candidates' non-empty
\* texts joined by newlines in candidate order; and str(response) only when
\* both yield nothing.  raw is the chosen text less surrounding whitespace.
C13_TextExtractionPriority ==
    Extracted =>
        raw = Strip(IF response.text # <<>> THEN response.text
                    ELSE IF CandidatesYield # <<>> THEN Joined(CandidatesYield)
                    ELSE response.repr)

\* C13 witness: the response had a text of its own and a candidate with
\* another text, and the text of the response was taken.
C13_Witness ==
    /\ Extracted
    /\ response.text = DumpList(<<"q1">>)
    /\ response.cands # <<>> /\ response.cands[1].text = DumpList(<<"q3">>)
    /\ raw = response.text

----------------------------------------------------------------------------
(* Properties of generate_questions_demo.                                  *)

DemoObjs == [i \in 1..Len(questions) |-> JObj(questions[i])]

\* C7: for n >= 0 the demo generator returns exactly n questions, and the
\* service's validation and normalised-text deduplication keep all of them.
C7_DemoReturnsExactlyN ==
    (demo_pc = "done" /\ demo_n >= 0) =>
        /\ Len(questions) = demo_n
        /\ \A i \in 1..Len(questions) : _validate_question(DemoObjs[i])
        /\ \A i, j \in 1..Len(questions) :
              i # j => Norm(questions[i].question_text.s) # Norm(questions[j].question_text.s)
        /\ QuestionLoop(DemoObjs, 1, <<>>, {}, demo_n + 1) = LoopOut(DemoObjs)

\* C7 witness: a demo run for five questions and a topic with an upper-case
\* letter and a space has returned.
C7_Witness ==
    /\ demo_pc = "done"
    /\ demo_n = 5
    /\ Len(questions) = 5
    /\ topic = <<" ", "T">>

----------------------------------------------------------------------------
(* Properties of the access-code migration.                                *)

\* C8: once the migration step has completed, every instructor profile has
\* an access code of exactly 6 decimal digits and no two profiles have the
\* same access code.
C8_InstructorsHaveUniqueCodes ==
    mig_pc = "done" =>
        /\ \A p \in 1..Len(profiles) :
              profiles[p].role = "instructor" =>
                  /\ Len(profiles[p].quiz_access_code) = 6
                  /\ \A d \in 1..6 : profiles[p].quiz_access_code[d] \in DecimalDigits
        /\ \A p, r \in 1..Len(profiles) :
              (p # r /\ profiles[p].quiz_access_code # NoCode)
                  => profiles[p].quiz_access_code # profiles[r].quiz_access_code

\* C8 witness: the migration completed on a table with two instructors.
C8_Witness ==
    /\ mig_pc = "done"
    /\ Len(profiles) >= 2
    /\ profiles[1].role = "instructor" /\ profiles[2].role = "instructor"

----------------------------------------------------------------------------
(* Properties of the superuser commands.                                   *)

\* C9: after any sequence of runs of createsu and create_superuser, every
\* superuser the commands created has exactly one UserProfile.
C9_OneProfilePerCreatedSuperuser ==
    su_pc = "idle" => \A u \in created : user_profiles[u] = 1

----------------------------------------------------------------------------
(* Properties of the generate-ai-questions endpoint.                       *)

\* The service's whole answer: what was saved or skipped is gone from
\* service_items, so the count of unique texts is taken over the saved texts
\* and the items not yet looked at
UniqueOffered == view_seen \cup {TrimLower(service_items[i]) : i \in 1..Len(service_items)}

\* C6: when the service returns more items than requested, some with
\* repeated text, the quiz gets exactly num_questions questions provided
\* that many unique ones were returned, and no two saved questions have
\* the same text.
C6_EndpointCapsAndDedupes ==
    view_pc = "done" =>
        /\ Cardinality(UniqueOffered) >= view_n => Len(quiz_questions) = view_n
        /\ \A i, j \in 1..Len(quiz_questions) :
              i # j => quiz_questions[i] # quiz_questions[j]

\* C6 witness: the service returned four items, two of them repeats, for a
\* request of two, and the request was answered with two saved.
C6_Witness ==
    /\ view_pc = "done"
    /\ view_n = 2
    /\ Len(quiz_questions) = 2
    /\ Len(service_items) = 1
    /\ quiz_questions = <<<<"a">>, <<"b">>>>

----------------------------------------------------------------------------
(* Properties of GeminiService.__init__.                                   *)

\* GenerativeModel returned for one of the names it was called with
SomeInstantiated == \E i \in 1..Len(tried) : tried[i] \in env.usable

\* The preferred model when one is set, then the fixed names
NamedCandidates ==
    (IF env.preferred # "" THEN <<env.preferred>> ELSE <<>>) \o tried_models

\* The names of the entries list_models returned, in its order
DiscoveredNames == [i \in 1..Len(listed) |-> listed[i].name]

\* a can be had from b by leaving elements out
RECURSIVE IsSubseq(_, _)
IsSubseq(a, b) ==
    IF a = <<>> THEN TRUE
    ELSE IF b = <<>> THEN FALSE
    ELSE IF Head(a) = Head(b) THEN IsSubseq(Tail(a), Tail(b))
    ELSE IsSubseq(a, Tail(b))

\* The names were tried in the order preferred model, fixed names, discovered
\* models
TriedInOrder ==
    IF Len(tried) <= Len(NamedCandidates)
    THEN tried = SubSeq(NamedCandidates, 1, Len(tried))
    ELSE /\ SubSeq(tried, 1, Len(NamedCandidates)) = NamedCandidates
         /\ IsSubseq(SubSeq(tried, Len(NamedCandidates) + 1, Len(tried)), DiscoveredNames)

\* C14: after construction is_configured is True exactly when the library is
\* available, the API key is not empty and some model was instantiated; the
\* service's model is then the first candidate that instantiated, in the
\* order preferred model, fixed names, discovered models, and no candidate
\* was tried after it.
C14_ConfiguredIffFirstModel ==
    ctor_pc = "done" =>
        /\ is_configured <=> (env.available /\ env.api_key # "" /\ SomeInstantiated)
        /\ TriedInOrder
        /\ is_configured =>
              /\ model = tried[Len(tried)]
              /\ model \in env.usable
              /\ \A i \in 1..(Len(tried) - 1) : tried[i] \notin env.usable

\* C14 witness: the preferred model and the five fixed names failed, the
\* first discovered model failed too, and the service was configured with
\* the second.
C14_Witness ==
    /\ ctor_pc = "done" /\ is_configured
    /\ env.preferred = "custom-model"
    /\ Len(tried) = 8
    /\ tried[7] = "models/a"
    /\ model = "models/b"

\* C15: a model returned by list_models is selected only if its
\* supported_generation_methods contains generateContent.
C15_PickedAdvertiseGenerateContent ==
    (ctor_pc = "done" /\ picked # NoEntry) => picked.supported = "generate"

----------------------------------------------------------------------------
(* Properties of generate_distractors.                                     *)

\* A distractor whose plausibility_score is a number above 0.3
Plausible(o) ==
    /\ o.k = "obj"
    /\ o.d.plausibility_score.t = "num"
    /\ o.d.plausibility_score.v > 30

\* The model answered with a JSON array of objects whose scores are numbers
\* or missing
ScoredList ==
    /\ is_configured /\ ~dist_response.raises /\ ~dist_response.text_raises
    /\ loads_distractors(dist_response.text).ok
    /\ distractors_data.k = "list"
    /\ \A i \in 1..Len(distractors_data.items) :
          /\ distractors_data.items[i].k = "obj"
          /\ distractors_data.items[i].d.plausibility_score.t \in {"num", "absent"}

\* C16: no exception leaves generate_distractors; every returned distractor
\* has a plausibility_score above 0.3, one without a score being dropped;
\* the returned distractors are those of the model's array in its order; and
\* the result is empty when the service is not configured, the call raised
\* or the text does not parse as JSON.
C16_FiltersAndDegrades ==
    /\ dist_outcome # "raised"
    /\ dist_pc = "done" =>
          /\ dist_outcome = "returned"
          /\ \A i \in 1..Len(filtered) : Plausible(filtered[i])
          /\ ScoredList => filtered = SelectSeq(distractors_data.items, Plausible)
          /\ ~is_configured => filtered = <<>>
          /\ (dist_response.raises \/ dist_response.text_raises) => filtered = <<>>
          /\ ~loads_distractors(dist_response.text).ok => filtered = <<>>

\* C16 witness: of an array of three distractors, one without a score, the
\* two others were returned in the order of the array.
C16_Witness ==
    /\ dist_pc = "done" /\ ScoredList
    /\ Len(distractors_data.items) = 3
    /\ distractors_data.items[2].d.plausibility_score.t = "absent"
    /\ filtered = <<distractors_data.items[1], distractors_data.items[3]>>
    /\ filtered[1] # filtered[2]

----------------------------------------------------------------------------
(* Properties of RateLimitError.                                           *)

\* What str(retry_after) writes, by the float grammar
ArgValue == ParseFloat(Strip(rl_arg.s))

\* C11: for every retry_after argument (absent, integer, numeric string,
\* non-numeric string, zero, negative, fractional, infinite) constructing
\* RateLimitError succeeds and retry_after is None or a strictly positive
\* integer; non-numeric, zero and negative arguments give None.
C11_RetryAfterNoneOrPositive ==
    rl_pc = "done" =>
        /\ rl_outcome = "constructed"
        /\ retry_after.none \/ retry_after.v > 0
        /\ (~rl_arg.none /\ (~ArgValue.ok \/ ArgValue.neg \/ ArgValue.int = 0))
              => retry_after.none

====
